---- MODULE Spec2Model ----
(***************************************************************************)
(* Pinhole-camera 2-theta distortion corrections (hexrd/xrdutil/phutil.py). *)
(*                                                                         *)
(* Numbers.  A float is modelled as an extended fixed-point value: a       *)
(* finite integer, a signed infinity or not-a-number.  Angles are whole    *)
(* degrees; unit-vector components and sines/cosines are in thousandths;   *)
(* positions in the lab frame are in thousandths of a millimetre; the      *)
(* length parameters of the evaluators are whole millimetres.              *)
(***************************************************************************)
EXTENDS Integers, Sequences, FiniteSets, TLC

----------------------------------------------------------------------------
(* Bounds of the model *)

MaxPts == 2          \* longest coordinate batch
XYMax == 3           \* largest |x|, |y| of a batch point (mm)
MaxLen == 1          \* standoff, thicknesses and radius range over 0..MaxLen
MaxSrc == 2          \* source_distance is the instrument's (1 mm) or MaxSrc
MaxCols == 2         \* columns of a detector's pixel grid (it has 2 rows)

----------------------------------------------------------------------------
(* numpy float arithmetic *)

Abs(n) == IF n < 0 THEN -n ELSE n

Sgn(n) == IF n < 0 THEN -1 ELSE IF n > 0 THEN 1 ELSE 0

\* a / b rounded to the nearest integer, halves away from zero (b # 0)
RDiv[a \in Int, b \in Int] ==
    Sgn(a) * Sgn(b) * ((2 * Abs(a) + Abs(b)) \div (2 * Abs(b)))

Ext == [k : {"fin", "inf", "nan"}, v : Int]

Fin(n) == [k |-> "fin", v |-> n]

Inf(s) == [k |-> "inf", v |-> s]

NaN == [k |-> "nan", v |-> 0]

IsFinite(a) == a.k = "fin"

\* -a
ExtNeg[a \in Ext] == IF a.k = "nan" THEN NaN ELSE [k |-> a.k, v |-> -a.v]

\* a - b
ExtSub[a \in Ext, b \in Ext] ==
    CASE a.k = "nan" \/ b.k = "nan" -> NaN
      [] a.k = "inf" /\ b.k = "inf" -> IF a.v = b.v THEN NaN ELSE a
      [] a.k = "inf" -> a
      [] b.k = "inf" -> Inf(-b.v)
      [] OTHER -> Fin(a.v - b.v)

\* a / b of two numbers in the same scale, the quotient in scale sc;
\* numpy divides by zero without raising: x/0 is a signed infinity, 0/0 nan
ExtDiv[a \in Ext, b \in Ext, sc \in Int] ==
    CASE a.k = "nan" \/ b.k = "nan" -> NaN
      [] a.k = "inf" /\ b.k = "inf" -> NaN
      [] a.k = "inf" -> Inf(a.v * (IF b.v < 0 THEN -1 ELSE 1))
      [] b.k = "inf" -> Fin(0)
      [] b.v = 0 -> IF a.v = 0 THEN NaN ELSE Inf(Sgn(a.v))
      [] OTHER -> Fin(RDiv[sc * a.v, b.v])

\* 1000 * sin(d degrees), d in 0..90
SinTab ==
    << 0, 17, 35, 52, 70, 87, 105, 122, 139, 156, 174, 191, 208,
       225, 242, 259, 276, 292, 309, 326, 342, 358, 375, 391, 407, 423,
       438, 454, 469, 485, 500, 515, 530, 545, 559, 574, 588, 602, 616,
       629, 643, 656, 669, 682, 695, 707, 719, 731, 743, 755, 766, 777,
       788, 799, 809, 819, 829, 839, 848, 857, 866, 875, 883, 891, 899,
       906, 914, 921, 927, 934, 940, 946, 951, 956, 961, 966, 970, 974,
       978, 982, 985, 988, 990, 993, 995, 996, 998, 999, 999, 1000, 1000 >>

\* np.sin of an angle in degrees, in thousandths
Sin[a \in Int] ==
    LET m == a % 360
    IN  IF m <= 90 THEN SinTab[m + 1]
        ELSE IF m <= 180 THEN SinTab[180 - m + 1]
        ELSE IF m <= 270 THEN -SinTab[m - 180 + 1]
        ELSE -SinTab[360 - m + 1]

\* np.cos of an angle in degrees, in thousandths
Cos[a \in Int] == Sin[a + 90]

\* the smallest a in lo..hi with Cos[a] <= c (Cos decreases on 0..180)
FirstCosLeq[lo \in Int, hi \in Int, c \in Int] ==
    IF lo >= hi THEN lo
    ELSE IF Cos[(lo + hi) \div 2] <= c
         THEN FirstCosLeq[lo, (lo + hi) \div 2, c]
         ELSE FirstCosLeq[((lo + hi) \div 2) + 1, hi, c]

\* the degree nearest to the arccos of c, given the first degree a with
\* Cos[a] <= c
NearestCos[a \in Int, c \in Int] ==
    IF a > 0 /\ (Cos[a - 1] - c) < (c - Cos[a]) THEN a - 1 ELSE a

\* np.arccos of c thousandths, in degrees 0..180
Arccos[c \in Int] ==
    IF c >= 1000 THEN 0
    ELSE IF c <= -1000 THEN 180
    ELSE NearestCos[FirstCosLeq[0, 180, c], c]

\* the largest a in lo..hi with tan(a) <= q/1000 (0 <= lo, hi <= 89, q >= 0)
LastTanLeq[lo \in Int, hi \in Int, q \in Int] ==
    IF lo >= hi THEN lo
    ELSE IF 1000 * Sin[(lo + hi + 1) \div 2] <= q * Cos[(lo + hi + 1) \div 2]
         THEN LastTanLeq[(lo + hi + 1) \div 2, hi, q]
         ELSE LastTanLeq[lo, ((lo + hi + 1) \div 2) - 1, q]

\* np.arctan of a float ratio in thousandths, in degrees: arctan(+-inf) is
\* +-pi/2, arctan(nan) is nan, a finite ratio gives an angle inside (-90, 90)
ExtArctan[r \in Ext] ==
    CASE r.k = "nan" -> NaN
      [] r.k = "inf" -> Fin(90 * r.v)
      [] OTHER -> Fin(Sgn(r.v) * LastTanLeq[0, 89, Abs(r.v)])

\* the largest r in lo..hi with r*r <= n
SqrtBetween[lo \in Int, hi \in Int, n \in Int] ==
    IF lo >= hi THEN lo
    ELSE IF ((lo + hi + 1) \div 2) * ((lo + hi + 1) \div 2) <= n
         THEN SqrtBetween[(lo + hi + 1) \div 2, hi, n]
         ELSE SqrtBetween[lo, ((lo + hi + 1) \div 2) - 1, n]

\* floor of the square root
ISqrt[n \in Int] == SqrtBetween[0, 32767, n]

\* the angle of the point (x, y) at the distance r > 0 from the origin
AngleAt[y \in Int, x \in Int, r \in Int] ==
    IF y < 0 THEN -Arccos[RDiv[1000 * x, r]] ELSE Arccos[RDiv[1000 * x, r]]

\* np.arctan2(y, x) in degrees, -180..180
Arctan2[y \in Int, x \in Int] ==
    IF x = 0 /\ y = 0 THEN 0
    ELSE IF x * x + y * y < 4 THEN AngleAt[1000 * y, 1000 * x, ISqrt[1000000 * (x * x + y * y)]]
    ELSE AngleAt[y, x, ISqrt[x * x + y * y]]

----------------------------------------------------------------------------
(* vectors and matrices *)

Vec == Int \X Int \X Int

Mat == Vec \X Vec \X Vec

Pt == Int \X Int

Dot[a \in Vec, b \in Vec] == a[1] * b[1] + a[2] * b[2] + a[3] * b[3]

Cross[a \in Vec, b \in Vec] ==
    << a[2] * b[3] - a[3] * b[2],
       a[3] * b[1] - a[1] * b[3],
       a[1] * b[2] - a[2] * b[1] >>

\* a vector in millionths brought to thousandths
Thousandths[c \in Vec] == << RDiv[c[1], 1000], RDiv[c[2], 1000], RDiv[c[3], 1000] >>

\* cross product of two vectors in thousandths, in thousandths
CrossK[a \in Vec, b \in Vec] == Thousandths[Cross[a, b]]

VAdd[a \in Vec, b \in Vec] == << a[1] + b[1], a[2] + b[2], a[3] + b[3] >>

VSub[a \in Vec, b \in Vec] == << a[1] - b[1], a[2] - b[2], a[3] - b[3] >>

\* matrix (a tuple of rows) times column vector
MatVec[m \in Mat, v \in Vec] == << Dot[m[1], v], Dot[m[2], v], Dot[m[3], v] >>

Transpose[m \in Mat] ==
    << << m[1][1], m[2][1], m[3][1] >>,
       << m[1][2], m[2][2], m[3][2] >>,
       << m[1][3], m[2][3], m[3][3] >> >>

\* row vector times matrix
RowMat[v \in Vec, m \in Mat] ==
    << v[1] * m[1][1] + v[2] * m[2][1] + v[3] * m[3][1],
       v[1] * m[1][2] + v[2] * m[2][2] + v[3] * m[3][2],
       v[1] * m[1][3] + v[2] * m[2][3] + v[3] * m[3][3] >>

----------------------------------------------------------------------------
(* hexrd.constants *)

beam_vec == << 0, 0, -1000 >>

eta_vec == << 1000, 0, 0 >>

identity_3x3 == << << 1, 0, 0 >>, << 0, 1, 0 >>, << 0, 0, 1 >> >>

zeros_3 == << 0, 0, 0 >>

----------------------------------------------------------------------------
(* hexrd.transforms.xfcapi *)

\* v / n in thousandths; a zero vector is returned as it is
Normalize[v \in Vec, n \in Int] ==
    IF n = 0 THEN v
    ELSE << RDiv[1000 * v[1], n], RDiv[1000 * v[2], n], RDiv[1000 * v[3], n] >>

\* v / |v| in thousandths
unitRowVector[v \in Vec] == Normalize[v, ISqrt[Dot[v, v]]]

\* the axes Xe, Ye of the eta frame of the unit beam and eta vectors:
\* Ze = -bHat, Ye = Ze x eHat, Xe = Ye x Ze
EtaAxisY[bHat \in Vec, eHat \in Vec] ==
    unitRowVector[CrossK[<< -bHat[1], -bHat[2], -bHat[3] >>, eHat]]

EtaAxisX[bHat \in Vec, Ye \in Vec] ==
    unitRowVector[CrossK[Ye, << -bHat[1], -bHat[2], -bHat[3] >>]]

\* (2-theta, eta) of the unit ray dHat
RayAngles[dHat \in Vec, bHat \in Vec, Xe \in Vec, Ye \in Vec] ==
    << Arccos[RDiv[Dot[bHat, dHat], 1000]],
       Arctan2[RDiv[Dot[dHat, Ye], 1000], RDiv[Dot[dHat, Xe], 1000]] >>

\* (2-theta, eta) of the rays that reach the detector points xy_det from
\* tVec1, in the eta frame (Xe, Ye) of the unit beam vector bHat
FrameAngles[xy_det \in Seq(Pt), rMat_d \in Mat, tVec1 \in Vec, bHat \in Vec, Xe \in Vec, Ye \in Vec] ==
    [i \in 1..Len(xy_det) |->
        RayAngles[unitRowVector[VAdd[MatVec[rMat_d, << xy_det[i][1], xy_det[i][2], 0 >>], tVec1]],
                  bHat, Xe, Ye]]

\* the same, the eta frame made from the unit beam vector and the axis Ye
BeamAngles[xy_det \in Seq(Pt), rMat_d \in Mat, tVec1 \in Vec, bHat \in Vec, Ye \in Vec] ==
    FrameAngles[xy_det, rMat_d, tVec1, bHat, EtaAxisX[bHat, Ye], Ye]

\* the same, from the unit beam and eta vectors
UnitAngles[xy_det \in Seq(Pt), rMat_d \in Mat, tVec1 \in Vec, bHat \in Vec, eHat \in Vec] ==
    BeamAngles[xy_det, rMat_d, tVec1, bHat, EtaAxisY[bHat, eHat]]

\* (2-theta, eta) of the rays from the crystal position tVec_c to the detector
\* points xy_det, one pair per point
detectorXYToGvec[xy_det \in Seq(Pt), rMat_d \in Mat, rMat_s \in Mat, tVec_d \in Vec, tVec_s \in Vec, tVec_c \in Vec, beamVec \in Vec, etaVec \in Vec] ==
    UnitAngles[xy_det, rMat_d,
               VSub[VSub[tVec_d, tVec_s], MatVec[rMat_s, tVec_c]],
               unitRowVector[beamVec], unitRowVector[etaVec]]

----------------------------------------------------------------------------
(* hexrd.instrument: the detector and instrument objects *)

DetectorObj ==
    [cls : {"PlanarDetector"}, rmat : Mat, tvec : Vec, bvec : Vec, evec : Vec,
     distortion : [on : BOOLEAN, d : Pt], rows : Nat, cols : Nat]

PixelPitch == 2 * 1000

\* the panel distortion of a detector (None when d.distortion.on is FALSE)
distortion_apply[d \in DetectorObj, xy \in Seq(Pt)] ==
    [i \in 1..Len(xy) |->
        << xy[i][1] + d.distortion.d[1], xy[i][2] + d.distortion.d[2] >>]

\* PlanarDetector.cart_to_angles(xy, rmat_s=None, tvec_s=None, tvec_c=None,
\*                               apply_distortion)
cart_to_angles[d \in DetectorObj, xy_data \in Seq(Pt), apply_distortion \in BOOLEAN] ==
    detectorXYToGvec[IF apply_distortion /\ d.distortion.on
                     THEN distortion_apply[d, xy_data] ELSE xy_data,
                     d.rmat, identity_3x3, d.tvec, zeros_3, zeros_3,
                     d.bvec, d.evec]

shape(d) == << d.rows, d.cols >>

\* PlanarDetector.pixel_coords: the grids (py, px) of the pixel centres
pixel_coords[d \in DetectorObj] ==
    << [i \in 1..d.rows |-> [j \in 1..d.cols |->
            (PixelPitch * ((d.rows - 1) - 2 * (i - 1))) \div 2]],
       [i \in 1..d.rows |-> [j \in 1..d.cols |->
            (PixelPitch * (2 * (j - 1) - (d.cols - 1))) \div 2]] >>

\* ndarray.flatten of a 2-d grid of c columns (row-major)
flatten(g, c) ==
    [n \in 1..(Len(g) * c) |-> g[((n - 1) \div c) + 1][((n - 1) % c) + 1]]

\* ndarray.reshape of a flat array to the 2-d shape sh
reshape(f, sh) ==
    [i \in 1..sh[1] |-> [j \in 1..sh[2] |-> f[(i - 1) * sh[2] + j]]]

\* the pixel centres (x, y) of a detector, row-major:
\* np.vstack([px.flatten(), py.flatten()]).T
vstack_T[px \in Seq(Int), py \in Seq(Int)] ==
    [n \in 1..Len(px) |-> << px[n], py[n] >>]

pixel_xy[d \in DetectorObj] ==
    vstack_T[flatten(pixel_coords[d][2], d.cols),
             flatten(pixel_coords[d][1], d.cols)]

\* the grids (tth, eta) of shape sh of the flat array angs of pairs
angle_grids[angs \in Seq(Pt), sh \in Nat \X Nat] ==
    << reshape([n \in 1..Len(angs) |-> angs[n][1]], sh),
       reshape([n \in 1..Len(angs) |-> angs[n][2]], sh) >>

\* PlanarDetector.pixel_angles(): the grids (ptth, peta) of the pixel centres
pixel_angles[d \in DetectorObj] ==
    angle_grids[cart_to_angles[d, pixel_xy[d], TRUE], shape(d)]

\* the object heap: id -> object; the caller's instrument is object 0
InstrRef == 0

NextId(h) == (CHOOSE m \in DOMAIN h : \A n \in DOMAIN h : n <= m) + 1

\* a copy that is the object itself
deepcopy_alias(h, ref) == [heap |-> h, ref |-> ref]

\* copy.deepcopy: a detector is copied to a fresh object; an instrument is
\* copied together with every detector it holds
deepcopy(h, ref) ==
    IF h[ref].cls = "HEDMInstrument"
    THEN LET dets == h[ref].detectors
             n == NextId(h)
             new(k) == n + Cardinality({j \in DOMAIN dets : dets[j] <= dets[k]})
             copies == [id \in {new(k) : k \in DOMAIN dets} |->
                          h[dets[CHOOSE k \in DOMAIN dets : new(k) = id]]]
             cp == [h[ref] EXCEPT !.detectors = [k \in DOMAIN dets |-> new(k)]]
         IN  [heap |-> (h @@ copies) @@ (n :> cp), ref |-> n]
    ELSE LET n == NextId(h)
         IN  [heap |-> h @@ (n :> h[ref]), ref |-> n]

\* HEDMInstrument.beam_vector setter: sets the instrument's beam vector and
\* the bvec of each of its detectors
set_beam_vector(h, iref, b) ==
    LET mine == {h[iref].detectors[k] : k \in DOMAIN h[iref].detectors}
    IN  [id \in DOMAIN h |->
            IF id = iref THEN [h[id] EXCEPT !.beam_vector = b]
            ELSE IF id \in mine THEN [h[id] EXCEPT !.bvec = b]
            ELSE h[id]]

\* Detector.bvec setter
set_bvec(h, ref, b) == [h EXCEPT ![ref].bvec = b]

----------------------------------------------------------------------------
(* phutil.py: the evaluators *)

None == [none |-> TRUE, v |-> << >>]

Some(x) == [none |-> FALSE, v |-> x]

\* np.atleast_2d of an (n, 2) batch
atleast_2d(xy_pts) == xy_pts

\* twice the full z offset from the centre of the pinhole to the centre of
\* the layer: zs = layer_standoff + 0.5*layer_thickness + 0.5*pinhole_thickness
zs2(layer_standoff, layer_thickness, pinhole_thickness) ==
    2 * layer_standoff + layer_thickness + pinhole_thickness

\* source_distance*cos_beta/zs - cos_tthn for one point
sample_layer_denom[ref_tth \in Int, cos_beta \in Int, source_distance \in Int, z2 \in Int] ==
    ExtSub[ExtDiv[Fin(2 * source_distance * cos_beta), Fin(z2), 1],
           Fin(Cos[ref_tth])]

\* the correction with the arctan left out
sample_layer_corr_ratio(ref_tth, cos_beta, source_distance, z2) ==
    ExtDiv[Fin(Sin[ref_tth]),
           sample_layer_denom[ref_tth, cos_beta, source_distance, z2], 1000]

\* np.arctan(sin_tthn/(source_distance*cos_beta/zs - cos_tthn)) for one point
sample_layer_corr(ref_tth, cos_beta, source_distance, z2) ==
    ExtArctan[ExtDiv[Fin(Sin[ref_tth]),
                     sample_layer_denom[ref_tth, cos_beta, source_distance, z2],
                     1000]]

\* the nominal convention with the sign of the correction flipped
angle_row_flipped(ref_tth, tth_corr, eta, return_nominal) ==
    IF return_nominal
    THEN << ExtSub[Fin(ref_tth), ExtNeg[tth_corr]], eta >>
    ELSE << ExtNeg[tth_corr], eta >>

\* the two output conventions of the point evaluators
angle_row(ref_tth, tth_corr, eta, return_nominal) ==
    IF return_nominal
    THEN << ExtSub[Fin(ref_tth), tth_corr], eta >>
    ELSE << ExtNeg[tth_corr], eta >>

\* cos_beta of a detector point: minus the z component of the unit vector of
\* np.dot(crds, detector.rmat.T) + detector.tvec
cos_beta_rows[crd \in Vec, rmat \in Mat, tvec \in Vec] ==
    -unitRowVector[VAdd[RowMat[crd, Transpose[rmat]], tvec]][3]

\* one row of the batch tth_corr_sample_layer returns
sample_layer_row[ref_ang \in Pt, cos_beta \in Int, source_distance \in Int, z2 \in Int, return_nominal \in BOOLEAN] ==
    angle_row(ref_ang[1],
              sample_layer_corr(ref_ang[1], cos_beta, source_distance, z2),
              ref_ang[2], return_nominal)

\* the batch tth_corr_sample_layer returns for the reference angles ref_angs
sample_layer_batch[detector \in DetectorObj, xy_pts \in Seq(Pt), ref_angs \in Seq(Pt), source_distance \in Int, z2 \in Int, return_nominal \in BOOLEAN] ==
    [i \in 1..Len(xy_pts) |->
        sample_layer_row[
            ref_angs[i],
            cos_beta_rows[<< xy_pts[i][1], xy_pts[i][2], 0 >>,
                          detector.rmat, detector.tvec],
            source_distance, z2, return_nominal]]

tth_corr_sample_layer[detector \in DetectorObj, xy_pts0 \in Seq(Pt), layer_standoff \in Int, layer_thickness \in Int, pinhole_thickness \in Int, source_distance \in Int, return_nominal \in BOOLEAN] ==
    sample_layer_batch[detector, atleast_2d(xy_pts0),
                       cart_to_angles[detector, atleast_2d(xy_pts0), TRUE],
                       source_distance,
                       zs2(layer_standoff, layer_thickness, pinhole_thickness),
                       return_nominal]

\* the items with the last one missed
detector_items_short(instrument) ==
    SubSeq(instrument.det_keys, 1, Len(instrument.det_keys) - 1)

\* instrument.detectors.items(): the keys in dictionary order
detector_items(instrument) == instrument.det_keys

\* dict.fromkeys(instrument.detectors)
fromkeys(instrument) == [k \in DOMAIN instrument.detectors |-> None]

\* cos_beta of a pixel centre: minus the z component of the unit vector of
\* np.dot(det.rmat, crds) + det.tvec
cos_beta_cols[crd \in Vec, rmat \in Mat, tvec \in Vec] ==
    -unitRowVector[VAdd[MatVec[rmat, crd], tvec]][3]

\* the field of the detector whose flattened pixel 2-thetas are ref_ptth and
\* whose pixel centres are pcrds
sample_layer_grid[det \in DetectorObj, ref_ptth \in Seq(Int), pcrds \in Seq(Pt), source_distance \in Int, z2 \in Int] ==
    reshape([n \in 1..Len(ref_ptth) |->
                sample_layer_corr(
                    ref_ptth[n],
                    cos_beta_cols[<< pcrds[n][1], pcrds[n][2], 0 >>,
                                  det.rmat, det.tvec],
                    source_distance, z2)],
            shape(det))

\* the field of one detector (body of the loop of tth_corr_map_sample_layer)
sample_layer_field[det \in DetectorObj, source_distance \in Int, z2 \in Int] ==
    sample_layer_grid[det, flatten(pixel_angles[det][1], det.cols),
                      pixel_xy[det], source_distance, z2]

RECURSIVE sample_layer_loop(_, _, _, _, _)
sample_layer_loop(h, instrument, items, z2, tth_corr) ==
    IF items = << >> THEN tth_corr
    ELSE sample_layer_loop(h, instrument, Tail(items), z2,
             [tth_corr EXCEPT ![Head(items)] =
                 Some(sample_layer_field[h[instrument.detectors[Head(items)]],
                                         instrument.source_distance, z2])])

tth_corr_map_sample_layer(h, iref, layer_standoff, layer_thickness, pinhole_thickness) ==
    sample_layer_loop(h, h[iref], detector_items(h[iref]),
                      zs2(layer_standoff, layer_thickness, pinhole_thickness),
                      fromkeys(h[iref]))

\* the displaced ray origin -pinhole_radius*[cos(reta), sin(reta),
\* 0.5*pinhole_thickness]
pinhole_origin[reta \in Int, pinhole_thickness \in Int, pinhole_radius \in Int] ==
    << -pinhole_radius * Cos[reta],
       -pinhole_radius * Sin[reta],
       -pinhole_radius * 500 * pinhole_thickness >>

\* the 2-theta of the ray that reaches the detector point pxy from the
\* displaced origin (body of the loop of tth_corr_pinhole and of the pixel loop
\* of tth_corr_map_pinhole)
pinhole_tth[pxy \in Pt, reta \in Int, rmat \in Mat, tvec \in Vec, bvec \in Vec, evec \in Vec, pinhole_thickness \in Int, pinhole_radius \in Int] ==
    detectorXYToGvec[<< pxy >>, rmat, identity_3x3, tvec, zeros_3,
                     pinhole_origin[reta, pinhole_thickness, pinhole_radius],
                     bvec, evec][1][1]

\* the eta column taken from the reference angles
pinhole_eta_ref(ref_ang, nom_ang) == ref_ang[2]

\* the eta column of the batch tth_corr_pinhole returns: nom_angs[:, 1]
pinhole_eta(ref_ang, nom_ang) == nom_ang[2]

\* one row of the batch tth_corr_pinhole returns: tth_corr = pin_tth - nom_tth
pinhole_row[pin_tth \in Int, ref_ang \in Pt, nom_ang \in Pt, return_nominal \in BOOLEAN] ==
    angle_row(nom_ang[1], Fin(pin_tth - nom_ang[1]),
              pinhole_eta(ref_ang, nom_ang), return_nominal)

\* the batch tth_corr_pinhole returns for the reference angles ref_angs and
\* the nominal angles nom_angs
pinhole_rows[detector \in DetectorObj, xy_pts \in Seq(Pt), ref_angs \in Seq(Pt), nom_angs \in Seq(Pt), pinhole_thickness \in Int, pinhole_radius \in Int, return_nominal \in BOOLEAN] ==
    [i \in 1..Len(xy_pts) |->
        pinhole_row[
            pinhole_tth[xy_pts[i], ref_angs[i][2],
                        detector.rmat, detector.tvec, detector.bvec, detector.evec,
                        pinhole_thickness, pinhole_radius],
            ref_angs[i], nom_angs[i], return_nominal]]

\* the batch tth_corr_pinhole returns for the detector and its copy cp_det
pinhole_batch[detector \in DetectorObj, cp_det \in DetectorObj, xy_pts \in Seq(Pt), pinhole_thickness \in Int, pinhole_radius \in Int, return_nominal \in BOOLEAN] ==
    pinhole_rows[detector, xy_pts,
                 cart_to_angles[cp_det, xy_pts, TRUE],
                 cart_to_angles[detector, xy_pts, TRUE],
                 pinhole_thickness, pinhole_radius, return_nominal]

\* the heap after cp_det = copy.deepcopy(detector); cp_det.bvec = ct.beam_vec
pinhole_heap(h, dref) ==
    set_bvec(deepcopy(h, dref).heap, deepcopy(h, dref).ref, beam_vec)

\* the result is the heap the call leaves behind and the returned batch
tth_corr_pinhole(h, dref, xy_pts0, pinhole_thickness, pinhole_radius, return_nominal) ==
    [heap |-> pinhole_heap(h, dref),
     out |-> pinhole_batch[pinhole_heap(h, dref)[dref],
                           pinhole_heap(h, dref)[deepcopy(h, dref).ref],
                           atleast_2d(xy_pts0),
                           pinhole_thickness, pinhole_radius, return_nominal]]

\* the field of the detector whose pixel centres are pcrds, whose flattened
\* reference etas are ref_peta and whose nominal 2-theta grid is nom_ptth:
\* new_ptth.reshape(det.shape) - nom_ptth
pinhole_grid[det \in DetectorObj, pcrds \in Seq(Pt), ref_peta \in Seq(Int), nom_ptth \in Seq(Seq(Int)), beam_vector \in Vec, eta_vector \in Vec, pinhole_thickness \in Int, pinhole_radius \in Int] ==
    [i \in 1..det.rows |-> [j \in 1..det.cols |->
        pinhole_tth[pcrds[(i - 1) * det.cols + j],
                    ref_peta[(i - 1) * det.cols + j],
                    det.rmat, det.tvec, beam_vector, eta_vector,
                    pinhole_thickness, pinhole_radius]
        - nom_ptth[i][j]]]

\* the field of one detector (body of the loop of tth_corr_map_pinhole)
pinhole_field[det \in DetectorObj, cp_det \in DetectorObj, beam_vector \in Vec, eta_vector \in Vec, pinhole_thickness \in Int, pinhole_radius \in Int] ==
    pinhole_grid[det, pixel_xy[det],
                 flatten(pixel_angles[cp_det][2], det.cols),
                 pixel_angles[det][1],
                 beam_vector, eta_vector, pinhole_thickness, pinhole_radius]

RECURSIVE pinhole_loop(_, _, _, _, _, _, _)
pinhole_loop(h, instrument, cp_instr, items, pinhole_thickness, pinhole_radius, tth_corr) ==
    IF items = << >> THEN tth_corr
    ELSE pinhole_loop(h, instrument, cp_instr, Tail(items),
             pinhole_thickness, pinhole_radius,
             [tth_corr EXCEPT ![Head(items)] =
                 Some(pinhole_field[h[instrument.detectors[Head(items)]],
                                    h[cp_instr.detectors[Head(items)]],
                                    instrument.beam_vector, instrument.eta_vector,
                                    pinhole_thickness, pinhole_radius])])

\* the heap after cp_instr = copy.deepcopy(instrument);
\* cp_instr.beam_vector = ct.beam_vec
pinhole_map_heap(h, iref) ==
    set_beam_vector(deepcopy(h, iref).heap, deepcopy(h, iref).ref, beam_vec)

\* the result is the heap the call leaves behind and the returned mapping
tth_corr_map_pinhole(h, iref, pinhole_thickness, pinhole_radius) ==
    [heap |-> pinhole_map_heap(h, iref),
     out |-> pinhole_loop(pinhole_map_heap(h, iref),
                          pinhole_map_heap(h, iref)[iref],
                          pinhole_map_heap(h, iref)[deepcopy(h, iref).ref],
                          detector_items(pinhole_map_heap(h, iref)[iref]),
                          pinhole_thickness, pinhole_radius,
                          fromkeys(pinhole_map_heap(h, iref)[iref]))]

----------------------------------------------------------------------------
(* phutil.py: the parameter holders *)

detector_classes == {"PlanarDetector"}

\* Python values handed to the constructors and setters
PyInt(n) == [t |-> "int", v |-> n]

PyFloat(n) == [t |-> "float", v |-> n]

PyStr == [t |-> "str", v |-> 0]

\* float(x): the value of a number, a ValueError for a non-numeric string
float_ok(x) == x.t \in {"int", "float"}

float(x) == PyFloat(x.v)

NoObject == [cls |-> "none"]

SampleLayerDistortion(detector, layer_standoff, layer_thickness, pinhole_thickness, source_distance) ==
    [cls |-> "SampleLayerDistortion",
     detector |-> detector,
     standoff |-> layer_standoff,
     thickness |-> layer_thickness,
     ph_thickness |-> pinhole_thickness,
     source_dist |-> source_distance]

PinholeDistortion(detector, pinhole_thickness, pinhole_radius) ==
    [cls |-> "PinholeDistortion",
     detector |-> detector,
     ph_thickness |-> pinhole_thickness,
     ph_radius |-> pinhole_radius]

\* isinstance(x, detector_classes) for the object x of heap h
isinstance(h, x) == h[x].cls \in detector_classes

\* the numeric fields of a holder
NumFields(o) ==
    IF o.cls = "SampleLayerDistortion"
    THEN {"standoff", "thickness", "ph_thickness", "source_dist"}
    ELSE IF o.cls = "PinholeDistortion" THEN {"ph_thickness", "ph_radius"}
    ELSE {}

----------------------------------------------------------------------------
(* State *)

VARIABLES
    heap,   \* the caller's objects: the instrument, its detectors, another object
    arg,    \* the inputs of the evaluator calls
    out,    \* the value returned by each evaluator call made so far
    obj,    \* the parameter holder the caller constructed
    res     \* the outcome of the last operation on the holder

vars == << heap, arg, out, obj, res >>

Rz90 == << << 0, -1, 0 >>, << 1, 0, 0 >>, << 0, 0, 1 >> >>

\* a beam tilted by 60 degrees about the lab y axis
tilted_beam == << 866, 0, -500 >>

Detector(rmat, tvec, bvec, dist) ==
    [cls |-> "PlanarDetector", rmat |-> rmat, tvec |-> tvec,
     bvec |-> bvec, evec |-> eta_vec,
     distortion |-> dist, rows |-> 2, cols |-> MaxCols]

NoDistortion == [on |-> FALSE, d |-> << 0, 0 >>]

ShiftDistortion == [on |-> TRUE, d |-> << 1000, 0 >>]

\* an instrument of two detectors sharing the beam vector bvec, and an object
\* that is not a detector
Heap(bvec, dist) ==
    (0 :> [cls |-> "HEDMInstrument",
           detectors |-> [k \in {"A", "B"} |-> IF k = "A" THEN 1 ELSE 2],
           det_keys |-> << "A", "B" >>,
           beam_vector |-> bvec, eta_vector |-> eta_vec,
           source_distance |-> 1])
    @@ (1 :> Detector(identity_3x3, << 0, 0, -4000 >>, bvec, NoDistortion))
    @@ (2 :> Detector(Rz90, << 1000, 0, -4000 >>, bvec, dist))
    @@ (3 :> [cls |-> "object"])

Heaps == {Heap(beam_vec, ShiftDistortion), Heap(tilted_beam, NoDistortion)}

\* the centre of the first pixel of a detector
FirstPixel == << (PixelPitch * (1 - MaxCols)) \div 2, PixelPitch \div 2 >>

\* the points the batches are drawn from
AllPts == << << 0, 0 >>, FirstPixel, << -1000 * XYMax, 1000 * XYMax >> >>

\* the batches: the runs of at most MaxPts consecutive points
Batches ==
    {SubSeq(AllPts, ij[1], ij[2]) :
        ij \in {p \in (1..Len(AllPts)) \X (1..Len(AllPts)) :
                   p[1] <= p[2] /\ p[2] < p[1] + MaxPts}}

\* the inputs of the calls of one of the two models
SampleLayerArgs ==
    [model : {"sample_layer"},
     det : {"A", "B"},
     xy : Batches,
     standoff : 0..MaxLen,
     thickness : 0..MaxLen,
     ph_thickness : 0..MaxLen,
     source_distance : {1, MaxSrc}]

PinholeArgs ==
    [model : {"pinhole"},
     det : {"A", "B"},
     xy : Batches,
     ph_thickness : 0..MaxLen,
     ph_radius : 0..MaxLen]

Ops == {"nominal", "raw", "map"}

PointOp(return_nominal) == IF return_nominal THEN "nominal" ELSE "raw"

NoRes == [op |-> "none", err |-> "none", val |-> None]

Init ==
    /\ heap \in Heaps
    /\ arg \in SampleLayerArgs \cup PinholeArgs
    /\ out = [o \in Ops |-> None]
    /\ obj = NoObject
    /\ res = NoRes

\* the detector object the call is given
ArgDet == heap[InstrRef].detectors[arg.det]

\* the objects of a call's heap that outlive the call: its locals are released
\* when it returns
Released(h) == [id \in DOMAIN heap |-> h[id]]

----------------------------------------------------------------------------
(* The evaluator calls; each is made once on the inputs *)

CallSampleLayer(return_nominal) ==
    /\ arg.model = "sample_layer"
    /\ out[PointOp(return_nominal)].none
    /\ out' = [out EXCEPT ![PointOp(return_nominal)] =
                 Some(tth_corr_sample_layer[heap[ArgDet], arg.xy,
                          arg.standoff, arg.thickness, arg.ph_thickness,
                          arg.source_distance, return_nominal])]
    /\ UNCHANGED << heap, arg, obj, res >>

CallMapSampleLayer ==
    /\ arg.model = "sample_layer"
    /\ out["map"].none
    /\ out' = [out EXCEPT !["map"] =
                 Some(tth_corr_map_sample_layer(heap, InstrRef,
                          arg.standoff, arg.thickness, arg.ph_thickness))]
    /\ UNCHANGED << heap, arg, obj, res >>

CallPinhole(return_nominal) ==
    /\ arg.model = "pinhole"
    /\ out[PointOp(return_nominal)].none
    /\ \E r \in {tth_corr_pinhole(heap, ArgDet, arg.xy, arg.ph_thickness,
                                  arg.ph_radius, return_nominal)} :
          /\ out' = [out EXCEPT ![PointOp(return_nominal)] = Some(r.out)]
          /\ heap' = Released(r.heap)
    /\ UNCHANGED << arg, obj, res >>

CallMapPinhole ==
    /\ arg.model = "pinhole"
    /\ out["map"].none
    /\ \E r \in {tth_corr_map_pinhole(heap, InstrRef,
                                      arg.ph_thickness, arg.ph_radius)} :
          /\ out' = [out EXCEPT !["map"] = Some(r.out)]
          /\ heap' = Released(r.heap)
    /\ UNCHANGED << arg, obj, res >>

Next ==
    \/ \E rn \in BOOLEAN : CallSampleLayer(rn)
    \/ CallMapSampleLayer
    \/ \E rn \in BOOLEAN : CallPinhole(rn)
    \/ CallMapPinhole

Spec == Init /\ [][Next]_vars

----------------------------------------------------------------------------
(* The parameter holders: construction, the setters, apply *)

PyArgs == {PyInt(1), PyFloat(2), PyStr}

HolderArgs == [model : {"holder"}, xy : {SubSeq(AllPts, i, i) : i \in 1..Len(AllPts)}]

InitHolder ==
    /\ heap = Heap(beam_vec, ShiftDistortion)
    /\ arg \in HolderArgs
    /\ out = [o \in Ops |-> None]
    /\ obj \in {SampleLayerDistortion(d, a, b, c, e) :
                    d \in 1..3, a \in PyArgs, b \in PyArgs,
                    c \in PyArgs, e \in PyArgs}
               \cup {PinholeDistortion(d, a, b) :
                        d \in 1..3, a \in PyArgs, b \in PyArgs}
    /\ res = NoRes

\* detector.setter of both classes
SetDetector(x) ==
    /\ IF isinstance(heap, x)
       THEN /\ obj' = [obj EXCEPT !.detector = x]
            /\ res' = [op |-> "set_detector", err |-> "none", val |-> None]
       ELSE /\ obj' = obj
            /\ res' = [op |-> "set_detector", err |-> "AssertionError",
                       val |-> None]
    /\ UNCHANGED << heap, arg, out >>

\* the setter of the numeric field f of either class: self._f = float(x)
SetParam(f, x) ==
    /\ f \in NumFields(obj)
    /\ IF float_ok(x)
       THEN /\ obj' = [obj EXCEPT ![f] = float(x)]
            /\ res' = [op |-> "set_param", err |-> "none", val |-> None]
       ELSE /\ obj' = obj
            /\ res' = [op |-> "set_param", err |-> "ValueError", val |-> None]
    /\ UNCHANGED << heap, arg, out >>

\* SampleLayerDistortion.apply; the call fails where it first uses a value
\* of the wrong kind
ApplySampleLayer(return_nominal) ==
    /\ obj.cls = "SampleLayerDistortion"
    /\ res' =
         IF \E f \in {"standoff", "thickness", "ph_thickness"} : ~float_ok(obj[f])
         THEN [op |-> "apply", err |-> "TypeError", val |-> None]
         ELSE IF ~isinstance(heap, obj.detector)
         THEN [op |-> "apply", err |-> "AttributeError", val |-> None]
         ELSE IF ~float_ok(obj.source_dist)
         THEN [op |-> "apply", err |-> "TypeError", val |-> None]
         ELSE [op |-> "apply", err |-> "none",
               val |-> Some(tth_corr_sample_layer[heap[obj.detector], arg.xy,
                               obj.standoff.v, obj.thickness.v,
                               obj.ph_thickness.v, obj.source_dist.v,
                               return_nominal])]
    /\ UNCHANGED << heap, arg, out, obj >>

\* PinholeDistortion.apply
ApplyPinhole(return_nominal) ==
    /\ obj.cls = "PinholeDistortion"
    /\ IF ~isinstance(heap, obj.detector)
       THEN /\ res' = [op |-> "apply", err |-> "AttributeError", val |-> None]
            /\ heap' = heap
       ELSE IF \E f \in {"ph_thickness", "ph_radius"} : ~float_ok(obj[f])
       THEN /\ res' = [op |-> "apply", err |-> "TypeError", val |-> None]
            /\ heap' = heap
       ELSE \E r \in {tth_corr_pinhole(heap, obj.detector, arg.xy,
                                       obj.ph_thickness.v, obj.ph_radius.v,
                                       return_nominal)} :
               /\ res' = [op |-> "apply", err |-> "none", val |-> Some(r.out)]
               /\ heap' = Released(r.heap)
    /\ UNCHANGED << arg, out, obj >>

NextHolder ==
    \/ \E x \in 1..3 : SetDetector(x)
    \/ \E f \in NumFields(obj), x \in PyArgs : SetParam(f, x)
    \/ \E rn \in BOOLEAN : ApplySampleLayer(rn)
    \/ \E rn \in BOOLEAN : ApplyPinhole(rn)

SpecHolder == InitHolder /\ [][NextHolder]_vars

----------------------------------------------------------------------------
(* Properties *)

Called(op) == ~out[op].none

Rows == 1..Len(arg.xy)

\* the nominal (2-theta, eta) of the batch on the caller's detector
NominalAngles == cart_to_angles[heap[ArgDet], arg.xy, TRUE]

\* the (2-theta, eta) of the batch about the canonical beam direction
CanonicalAngles ==
    cart_to_angles[[heap[ArgDet] EXCEPT !.bvec = beam_vec], arg.xy, TRUE]

ExtAdd(a, b) == ExtSub[a, ExtNeg[b]]

\* the pixels of detector d whose centre is the point p
PixelsAt(d, p) ==
    {rc \in (1..d.rows) \X (1..d.cols) :
        /\ pixel_coords[d][2][rc[1]][rc[2]] = p[1]
        /\ pixel_coords[d][1][rc[1]][rc[2]] = p[2]}

\* cos_beta and the denominator of the sample-layer formula at row i
CosBeta(i) ==
    LET d == heap[ArgDet]
        p == arg.xy[i]
    IN  -unitRowVector[VAdd[MatVec[d.rmat, << p[1], p[2], 0 >>], d.tvec]][3]

Denominator(i) ==
    sample_layer_denom[NominalAngles[i][1], CosBeta(i), arg.source_distance,
                       zs2(arg.standoff, arg.thickness, arg.ph_thickness)]

\* C1: for both point evaluators, the 2-theta column returned with
\* return_nominal=True is the nominal 2-theta of each point plus the 2-theta
\* column returned with return_nominal=False, and the eta column is the same
C1_NominalIsRefPlusRaw ==
    (Called("nominal") /\ Called("raw")) =>
        \A i \in Rows :
            /\ out["nominal"].v[i][1] =
                   ExtAdd(Fin(NominalAngles[i][1]), out["raw"].v[i][1])
            /\ out["nominal"].v[i][2] = out["raw"].v[i][2]

C1_Witness ==
    /\ Called("nominal")
    /\ Called("raw")
    /\ \E i \in Rows : out["raw"].v[i][1].k = "fin" /\ out["raw"].v[i][1].v # 0

\* C2: the raw 2-theta that tth_corr_pinhole returns at a pixel centre equals
\* the entry of that pixel in the field of tth_corr_map_pinhole, sign included
C2_PinholePointEqualsMap ==
    (arg.model = "pinhole" /\ Called("raw") /\ Called("map")) =>
        \A i \in Rows : \A rc \in PixelsAt(heap[ArgDet], arg.xy[i]) :
            out["raw"].v[i][1] = Fin(out["map"].v[arg.det].v[rc[1]][rc[2]])

\* C3: the entry of the field of tth_corr_map_sample_layer at a pixel equals
\* the raw 2-theta tth_corr_sample_layer returns at that pixel's centre, for
\* the same parameters and the instrument's source distance; that is, it is
\* the return_nominal=True 2-theta minus the nominal 2-theta
C3_SampleLayerMapEqualsRaw ==
    (/\ arg.model = "sample_layer"
     /\ Called("raw") /\ Called("nominal") /\ Called("map")
     /\ arg.source_distance = heap[InstrRef].source_distance) =>
        \A i \in Rows : \A rc \in PixelsAt(heap[ArgDet], arg.xy[i]) :
            LET entry == out["map"].v[arg.det].v[rc[1]][rc[2]]
            IN  /\ entry = out["raw"].v[i][1]
                /\ entry = ExtSub[out["nominal"].v[i][1], Fin(NominalAngles[i][1])]

\* C4: with pinhole_radius = 0 the pinhole correction term is exactly 0 at
\* every point, for any detector, one with a panel distortion included
C4_ZeroRadiusZeroCorrection ==
    (arg.model = "pinhole" /\ arg.ph_radius = 0) =>
        /\ Called("raw") => \A i \in Rows : out["raw"].v[i][1] = Fin(0)
        /\ Called("nominal") =>
              \A i \in Rows : out["nominal"].v[i][1] = Fin(NominalAngles[i][1])

\* C5 as stated: a row whose denominator is zero gets a non-finite 2-theta,
\* every other row a finite one
C5_SingularRowNonFinite ==
    \A op \in {"nominal", "raw"} :
        (arg.model = "sample_layer" /\ Called(op)) =>
            \A i \in Rows :
                IF Denominator(i) = Fin(0)
                THEN ~IsFinite(out[op].v[i][1])
                ELSE IsFinite(out[op].v[i][1])

\* C5 as amended: with zs # 0, a row whose denominator is zero gets the
\* correction arctan(+-inf) = +-90 degrees, so a finite 2-theta, when
\* sin(tth_nom) # 0, and gets not-a-number only when sin(tth_nom) = 0 too;
\* every row with a nonzero denominator gets a finite 2-theta
C5_SingularRowRightAngle ==
    (/\ arg.model = "sample_layer"
     /\ zs2(arg.standoff, arg.thickness, arg.ph_thickness) # 0) =>
        \A i \in Rows :
            LET s == Sin[NominalAngles[i][1]]
                corr == Fin(90 * Sgn(s))
            IN  /\ Called("raw") =>
                     IF Denominator(i) # Fin(0)
                     THEN IsFinite(out["raw"].v[i][1])
                     ELSE out["raw"].v[i][1] =
                             IF s = 0 THEN NaN ELSE ExtNeg[corr]
                /\ Called("nominal") =>
                     IF Denominator(i) # Fin(0)
                     THEN IsFinite(out["nominal"].v[i][1])
                     ELSE out["nominal"].v[i][1] =
                             IF s = 0 THEN NaN
                             ELSE ExtSub[Fin(NominalAngles[i][1]), corr]

C5_Witness ==
    /\ arg.model = "sample_layer"
    /\ Called("nominal")
    /\ Called("raw")
    /\ zs2(arg.standoff, arg.thickness, arg.ph_thickness) # 0
    /\ \E i \in Rows, j \in Rows :
          /\ Denominator(i) = Fin(0)
          /\ Sin[NominalAngles[i][1]] # 0
          /\ Denominator(j) # Fin(0)

\* C6: the detector bound to a holder is of an allowed detector type
C6_DetectorAllowed ==
    obj.cls # "none" => isinstance(heap, obj.detector)

\* C7: every numeric parameter a holder holds is a floating-point value
C7_ParamsAreFloats ==
    \A f \in NumFields(obj) : obj[f].t = "float"

\* C8: no evaluator call changes the caller's detector or instrument: the
\* beam vector and every other attribute are as before the call, and no
\* copy made inside the call is left behind
C8_InputsUnchanged == [][heap' = heap]_vars

C8_Witness ==
    /\ arg.model = "pinhole"
    /\ Called("nominal")
    /\ Called("map")
    /\ heap[InstrRef].beam_vector # beam_vec
    /\ heap[ArgDet].bvec # beam_vec

\* C9: a point evaluator returns one row of two columns per input row, row i
\* carrying the azimuth of input row i; a map evaluator returns one entry per
\* detector key, none left unset, each of its detector's pixel-grid shape
C9_Shapes ==
    /\ \A op \in {"nominal", "raw"} :
          Called(op) =>
              /\ DOMAIN out[op].v = Rows
              /\ \A i \in Rows :
                    /\ Len(out[op].v[i]) = 2
                    /\ out[op].v[i][2] = NominalAngles[i][2]
    /\ Called("map") =>
          /\ DOMAIN out["map"].v = DOMAIN heap[InstrRef].detectors
          /\ \A k \in DOMAIN heap[InstrRef].detectors :
                LET d == heap[heap[InstrRef].detectors[k]]
                    e == out["map"].v[k]
                IN  /\ ~e.none
                    /\ DOMAIN e.v = 1..d.rows
                    /\ \A r \in 1..d.rows : DOMAIN e.v[r] = 1..d.cols

C9_Witness ==
    /\ Called("map")
    /\ Called("nominal")
    /\ Len(arg.xy) = MaxPts
    /\ arg.xy[1] # arg.xy[MaxPts]

\* C10: the eta column tth_corr_pinhole returns, for either value of
\* return_nominal, is the eta of the nominal-angle query on the real detector;
\* the azimuth about the canonical beam only places the displaced ray origin
C10_EtaIsNominal ==
    arg.model = "pinhole" =>
        \A op \in {"nominal", "raw"} :
            Called(op) =>
                \A i \in Rows :
                    LET d == heap[ArgDet]
                        origin == pinhole_origin[CanonicalAngles[i][2],
                                      arg.ph_thickness, arg.ph_radius]
                        pin == detectorXYToGvec[<< arg.xy[i] >>, d.rmat,
                                   identity_3x3, d.tvec, zeros_3, origin,
                                   d.bvec, d.evec][1][1]
                        corr == pin - NominalAngles[i][1]
                    IN  /\ out[op].v[i][2] = NominalAngles[i][2]
                        /\ out[op].v[i][1] =
                              IF op = "raw" THEN Fin(-corr)
                              ELSE Fin(NominalAngles[i][1] - corr)

C10_Witness ==
    /\ arg.model = "pinhole"
    /\ Called("nominal")
    /\ Called("raw")
    /\ arg.ph_radius > 0
    /\ \E i \in Rows : NominalAngles[i][2] # CanonicalAngles[i][2]

====
